---- MODULE Spec2Model ----
(***************************************************************************)
(* Model of hmap: a Robin Hood linear-probing hash map (uint32 keys, int   *)
(* values) with two spaces and batched migration between them.             *)
(* The library is src/unnamed/part_001 (hmap.c), its types src/hmap.h.     *)
(***************************************************************************)
EXTENDS Integers, Sequences, FiniteSets, TLC

(* ----------------------------------------------------------------------- *)
(* Program constants                                                       *)
(* ----------------------------------------------------------------------- *)
HMAP_MIN_LOG2SIZE == 5
HMAP_MIN_BATCHSIZE == 4
HMAP_MAX_BITS == 32
HMAP_MIGRATE_ALL == 0
HMAP_GROW == 1
HMAP_SHRINK == -1
\* FIB32_BASE = 2654435769 = FibHi * 2^16 + FibLo (TLC integers are 32-bit signed)
FibHi == 40503
FibLo == 31161
\* load factors are doubles in the code; here they are exact rationals n / LoadDen
LoadDen == 1000
HMAP_DEF_GROW_LOAD == 700
HMAP_DEF_SHRINK_LOAD == 250
HMAP_DEF_MAX_OFFSET_MULT == 1

NULL == <<>>

(* ----------------------------------------------------------------------- *)
(* Model inputs and bounds                                                 *)
(* ----------------------------------------------------------------------- *)
\* keys of the mixed caller: in a 32-slot space 14, 35 and 69 have home slot
\* 20 and 6 has home slot 22
Keys == {14, 35, 6, 69}
\* the value the caller puts with a key it does not hold (main: hmPut(map, iarr[i], i+1)),
\* and the one it puts with a key it holds
NewValue(k) == k + 1
OtherValue(k) == k + 2
\* arguments of hmInitCustom for the mixed caller: the defaults of hmInit; low
\* load factors, which make count-triggered resizes happen with few keys, in
\* batches of 16 slots; and the same in migrate-all mode
Configs ==
    { [minsize_log2 |-> 5, growLoad |-> 700, shrinkLoad |-> 250, offsetLimitMult |-> 1, batchSize |-> 4],
      [minsize_log2 |-> 0, growLoad |-> 130, shrinkLoad |-> 65, offsetLimitMult |-> 1, batchSize |-> 16],
      [minsize_log2 |-> 5, growLoad |-> 130, shrinkLoad |-> 65, offsetLimitMult |-> 1, batchSize |-> 0] }
\* the mixed caller stops before the current space exceeds 2^MaxLog2 slots
MaxLog2 == 6
\* and before count exceeds the number of keys it holds by more than MaxDrift
MaxDrift == 1
\* the sequential caller uses the keys 0 .. MaxFill - 1
MaxFill == 42
\* arguments of hmInitCustom for the sequential caller
FillConfigs ==
    { [minsize_log2 |-> 5, growLoad |-> 700, shrinkLoad |-> 350, offsetLimitMult |-> 1, batchSize |-> 4] }

(* ----------------------------------------------------------------------- *)
(* 32-bit arithmetic helpers                                               *)
(* ----------------------------------------------------------------------- *)
Pow2(n) == 2 ^ n

RECURSIVE Xor(_, _)
Xor(a, b) ==
    IF a = 0 THEN b
    ELSE IF b = 0 THEN a
    ELSE ((a + b) % 2) + 2 * Xor(a \div 2, b \div 2)

\* (a * b) mod 2^16 for a, b < 2^16, without leaving 32-bit signed range
MulMod16(a, b) ==
    LET a0 == a % 256
        a1 == a \div 256
    IN  (a0 * b + ((a1 * b) % 256) * 256) % 65536

\* the upper 16 bits of (uint32)(x * FIB32_BASE), x < 2^31
FibMulHi16(x) ==
    LET xl == x % 65536
        xh == x \div 65536
    IN  (MulMod16(xl, FibHi) + MulMod16(xh, FibLo) + ((xl * FibLo) \div 65536)) % 65536

\* Fibonacci index with XOR mixing; shift >= 16 (spaces of at most 2^16 slots)
hindex32(key, shift, mask) ==
    FibMulHi16(Xor(key, key \div Pow2(shift))) \div Pow2(shift - 16)

RECURSIVE Or(_, _)
Or(a, b) ==
    IF a = 0 THEN b
    ELSE IF b = 0 THEN a
    ELSE (IF a % 2 = 1 \/ b % 2 = 1 THEN 1 ELSE 0) + 2 * Or(a \div 2, b \div 2)

\* DeBrujin sequence for bit positions (_db32[i] is db32[i + 1])
db32 ==
    << 0, 9, 1, 10, 13, 21, 2, 29,
       11, 14, 16, 18, 22, 25, 3, 30,
       8, 12, 20, 28, 15, 17, 24, 7,
       19, 27, 23, 6, 26, 5, 4, 31 >>

\* 0x07C4ACDD = DbHi * 2^16 + DbLo
DbHi == 1988
DbLo == 44253

\* n |= n >> 1; n |= n >> 2; n |= n >> 4; n |= n >> 8; n |= n >> 16, n < 2^16
Smear(n) ==
    LET n1 == Or(n, n \div 2)
        n2 == Or(n1, n1 \div 4)
        n4 == Or(n2, n2 \div 16)
    IN  Or(n4, n4 \div 256)

\* the upper 16 bits of (uint32)(x * 0x07C4ACDD), x < 2^16
DbMulHi16(x) ==
    (MulMod16(x, DbHi) + (x * (DbLo \div 256) + (x * (DbLo % 256)) \div 256) \div 256) % 65536

\* log2 in 32 bits, n < 2^16
log2_32(n) == db32[(DbMulHi16(Smear(n)) \div 2048) + 1]

(* ----------------------------------------------------------------------- *)
(* Buckets and spaces                                                      *)
(* ----------------------------------------------------------------------- *)
emptyentry == [key |-> 0, offset |-> 0, value |-> 0, inuse |-> FALSE]

\* xcalloc(space->buckets, space->size, sizeof(HmapEntry))
xcalloc(size) == [i \in 0 .. size - 1 |-> emptyentry]

\* a zeroed HmapSpace (memset in hmInitCustom / hmFree)
ZeroSpace ==
    [buckets |-> NULL, mask |-> 0, log2size |-> 0, shift |-> 0, size |-> 0,
     offsetLimit |-> 0, maxOffset |-> 0]

(* ----------------------------------------------------------------------- *)
(* Space primitives                                                        *)
(* ----------------------------------------------------------------------- *)
\* a variant of the probe loop of hsInsert that also swaps with a bucket as
\* far from its home as the entry carried (<= for <)
RECURSIVE hsInsertLoopEq(_, _, _, _, _, _, _)
hsInsertLoopEq(buckets, mask, index, me, placed, myindex, n) ==
    IF ~buckets[index].inuse
    THEN [buckets |-> buckets, index |-> index, me |-> me, placed |-> placed,
          myindex |-> myindex, exit |-> "empty"]
    ELSE IF buckets[index].key = me.key
    THEN [buckets |-> buckets, index |-> index, me |-> me, placed |-> placed,
          myindex |-> myindex, exit |-> "exists"]
    ELSE IF n > mask
    THEN [buckets |-> buckets, index |-> index, me |-> me, placed |-> placed,
          myindex |-> myindex, exit |-> "hang"]
    ELSE LET swap == buckets[index].offset <= me.offset
             me1 == IF swap THEN buckets[index] ELSE me
             b1 == IF swap THEN [buckets EXCEPT ![index] = me] ELSE buckets
             myindex1 == IF swap /\ ~placed THEN index ELSE myindex
         IN  hsInsertLoopEq(b1, mask, (index + 1) % (mask + 1),
                            [me1 EXCEPT !.offset = me1.offset + 1],
                            placed \/ swap, myindex1, n + 1)

\* the probe loop of hsInsert; n counts the iterations made so far.  Once
\* size iterations have met only in-use buckets holding other keys, every
\* slot is in use and the key is absent: the loop of the code never ends.
RECURSIVE hsInsertLoop(_, _, _, _, _, _, _)
hsInsertLoop(buckets, mask, index, me, placed, myindex, n) ==
    IF ~buckets[index].inuse
    THEN [buckets |-> buckets, index |-> index, me |-> me, placed |-> placed,
          myindex |-> myindex, exit |-> "empty"]
    ELSE IF buckets[index].key = me.key
    THEN [buckets |-> buckets, index |-> index, me |-> me, placed |-> placed,
          myindex |-> myindex, exit |-> "exists"]
    ELSE IF n > mask
    THEN [buckets |-> buckets, index |-> index, me |-> me, placed |-> placed,
          myindex |-> myindex, exit |-> "hang"]
    ELSE LET swap == buckets[index].offset < me.offset
             me1 == IF swap THEN buckets[index] ELSE me
             b1 == IF swap THEN [buckets EXCEPT ![index] = me] ELSE buckets
             myindex1 == IF swap /\ ~placed THEN index ELSE myindex
         IN  hsInsertLoop(b1, mask, (index + 1) % (mask + 1),
                          [me1 EXCEPT !.offset = me1.offset + 1],
                          placed \/ swap, myindex1, n + 1)

\* the end of hsInsert, l being what the probe loop returned: keep the
\* running max offset, commit the entry to the table, return the entry placed
hsInsertCommit(space, l) ==
    CASE l.exit = "exists" ->
           [space |-> [space EXCEPT !.buckets = l.buckets],
            entry |-> l.index, exists |-> TRUE, status |-> "ok"]
      [] l.exit = "hang" ->
           [space |-> [space EXCEPT !.buckets = l.buckets],
            entry |-> l.index, exists |-> FALSE, status |-> "hang"]
      [] OTHER ->
           [space |-> [space EXCEPT
                !.buckets = [l.buckets EXCEPT ![l.index] = l.me],
                !.maxOffset = IF l.me.offset > space.maxOffset
                              THEN l.me.offset ELSE space.maxOffset],
            entry |-> IF l.placed THEN l.myindex ELSE l.index,
            exists |-> FALSE, status |-> "ok"]

\* hsInsert from the home slot index on; the bucket array is allocated on
\* the first insertion
hsInsertAt(space, index, key, value) ==
    hsInsertCommit(space,
        hsInsertLoop(IF space.buckets = NULL THEN xcalloc(space.size) ELSE space.buckets,
                     space.mask, index,
                     [key |-> key, offset |-> 0, value |-> value, inuse |-> TRUE],
                     FALSE, index, 0))

\* insert a key + value into a hash map space
hsInsert(space, key, value) ==
    hsInsertAt(space, hindex32(key, space.shift, space.mask), key, value)

\* a null HmapEntry pointer, as a slot number
NoEntry == -1

\* a variant of the loop of hsFetch that stops at a slot that is not in use,
\* as a probe for an empty slot would
RECURSIVE hsFetchLoopStop(_, _, _, _, _, _)
hsFetchLoopStop(buckets, mask, key, index, offset, offsetLimit) ==
    IF offset > offsetLimit \/ ~buckets[index].inuse THEN NoEntry
    ELSE IF buckets[index].key = key THEN index
    ELSE hsFetchLoopStop(buckets, mask, key, (index + 1) % (mask + 1), offset + 1, offsetLimit)

RECURSIVE hsFetchLoop(_, _, _, _, _, _)
hsFetchLoop(buckets, mask, key, index, offset, offsetLimit) ==
    IF offset > offsetLimit THEN NoEntry
    ELSE IF buckets[index].inuse /\ buckets[index].key = key THEN index
    ELSE hsFetchLoop(buckets, mask, key, (index + 1) % (mask + 1), offset + 1, offsetLimit)

\* fetch an entry from hash map space: its slot, or NoEntry
hsFetch(space, key, offsetLimit) ==
    IF space.buckets = NULL THEN NoEntry
    ELSE hsFetchLoop(space.buckets, space.mask, key,
                     hindex32(key, space.shift, space.mask), 0, offsetLimit)

\* the first loop of hsRemove: the slot emptied (previndex), or NoEntry
RECURSIVE hsRemoveFind(_, _, _, _, _, _)
hsRemoveFind(buckets, mask, key, index, offset, offsetLimit) ==
    IF ~(offset < offsetLimit /\ buckets[index].inuse) THEN NoEntry
    ELSE IF buckets[index].key = key THEN index
    ELSE hsRemoveFind(buckets, mask, key, (index + 1) % (mask + 1), offset + 1, offsetLimit)

\* a variant of the backward shift that moves the entries left without
\* decrementing their offset
RECURSIVE hsRemoveShiftKeep(_, _, _)
hsRemoveShiftKeep(buckets, mask, previndex) ==
    LET index == (previndex + 1) % (mask + 1)
    IN  IF buckets[index].offset > 0 /\ buckets[index].inuse
        THEN hsRemoveShiftKeep(
                 [buckets EXCEPT ![previndex] = buckets[index], ![index] = emptyentry],
                 mask, index)
        ELSE buckets

\* the backward shift of hsRemove, from the emptied slot previndex
RECURSIVE hsRemoveShift(_, _, _)
hsRemoveShift(buckets, mask, previndex) ==
    LET index == (previndex + 1) % (mask + 1)
    IN  IF buckets[index].offset > 0 /\ buckets[index].inuse
        THEN hsRemoveShift(
                 [buckets EXCEPT
                     ![previndex] = [buckets[index] EXCEPT !.offset = buckets[index].offset - 1],
                     ![index] = emptyentry],
                 mask, index)
        ELSE buckets

\* a variant of the end of hsRemove that empties the slot found and makes no
\* backward shift
hsRemoveFoundNoShift(space, prev) ==
    IF prev = NoEntry
    THEN [space |-> space, found |-> FALSE, status |-> "ok"]
    ELSE [space |-> [space EXCEPT !.buckets[prev] = emptyentry],
          found |-> TRUE, status |-> "ok"]

\* the end of hsRemove, prev being the slot the first loop found
hsRemoveFound(space, prev) ==
    IF prev = NoEntry
    THEN [space |-> space, found |-> FALSE, status |-> "ok"]
    ELSE [space |-> [space EXCEPT !.buckets =
              hsRemoveShift([space.buckets EXCEPT ![prev] = emptyentry],
                            space.mask, prev)],
          found |-> TRUE, status |-> "ok"]

\* remove an entry from hash map space.  The code reads buckets[index].inuse
\* without testing buckets for NULL: that read is undefined, and nullRead is
\* the outcome taken, "trap" (the process is killed) or "zero" (the byte read
\* is zero, so the loop ends and the key is not found).
hsRemove(space, key, nullRead) ==
    IF space.buckets = NULL
    THEN IF space.offsetLimit > 0 /\ nullRead = "trap"
         THEN [space |-> space, found |-> FALSE, status |-> "segv"]
         ELSE [space |-> space, found |-> FALSE, status |-> "ok"]
    ELSE hsRemoveFound(space,
             hsRemoveFind(space.buckets, space.mask, key,
                          hindex32(key, space.shift, space.mask), 0, space.offsetLimit))

\* the HmapSpace hsInit sets up for a size of 2^newsize slots
hsInitSpace(map, newsize) ==
    [buckets |-> NULL, mask |-> Pow2(newsize) - 1, log2size |-> newsize,
     shift |-> HMAP_MAX_BITS - newsize, size |-> Pow2(newsize),
     offsetLimit |-> map.offsetMult * newsize, maxOffset |-> 0]

\* the grow watermark: this way we will always grow before the map is full
growCountOf(map, size) ==
    IF (size * map.growLoad) \div LoadDen > size - 1 THEN size - 1
    ELSE (size * map.growLoad) \div LoadDen

\* initialise the hash map space s: the space and the map's watermarks
hsInit(map, s, log2size) ==
    [map EXCEPT
        !.spaces[s] = hsInitSpace(map, IF log2size < map.minSize THEN map.minSize ELSE log2size),
        !.shrinkCount =
            (Pow2(IF log2size < map.minSize THEN map.minSize ELSE log2size) * map.shrinkLoad)
                \div LoadDen,
        !.growCount =
            growCountOf(map, Pow2(IF log2size < map.minSize THEN map.minSize ELSE log2size))]

(* ----------------------------------------------------------------------- *)
(* Migration and resize                                                    *)
(* ----------------------------------------------------------------------- *)
Other(map) == 1 - map.current

\* the while loop of hsMigrate over the previous space's slots; r is what
\* hsInsert returned for the in-use bucket at pos
RECURSIVE hsMigrateLoop(_, _, _, _, _, _)
RECURSIVE hsMigrateEntry(_, _, _, _, _, _)
\* a variant of the migration of one entry that inserts it into the current
\* space and leaves the slot of the previous space in use
hsMigrateEntryKeep(r, obuckets, left, pos, migrated, batchSize) ==
    IF r.status # "ok"
    THEN [cur |-> r.space, obuckets |-> obuckets, left |-> left, pos |-> pos,
          status |-> r.status]
    ELSE hsMigrateLoop(r.space, obuckets, left - 1, pos + 1, migrated + 1, batchSize)

\* the migration of one entry: lazy-delete the entry in the old space
hsMigrateEntry(r, obuckets, left, pos, migrated, batchSize) ==
    IF r.status # "ok"
    THEN [cur |-> r.space, obuckets |-> obuckets, left |-> left, pos |-> pos,
          status |-> r.status]
    ELSE hsMigrateLoop(r.space, [obuckets EXCEPT ![pos].inuse = FALSE],
                       left - 1, pos + 1, migrated + 1, batchSize)

hsMigrateLoop(cur, obuckets, left, pos, migrated, batchSize) ==
    IF ~(left > 0 /\ migrated < batchSize)
    THEN [cur |-> cur, obuckets |-> obuckets, left |-> left, pos |-> pos, status |-> "ok"]
    ELSE IF obuckets = NULL
    THEN [cur |-> cur, obuckets |-> obuckets, left |-> left, pos |-> pos, status |-> "segv"]
    ELSE IF obuckets[pos].inuse
    THEN hsMigrateEntry(hsInsert(cur, obuckets[pos].key, obuckets[pos].value),
                        obuckets, left, pos, migrated, batchSize)
    ELSE hsMigrateLoop(cur, obuckets, left - 1, pos + 1, migrated + 1, batchSize)

\* a variant of the end of hsMigrate that does not free the previous space
\* when nothing is left
hsMigrateEndKeep(map, l) ==
    IF l.status = "ok" /\ l.left = 0
    THEN [map |-> [map EXCEPT !.spaces[map.current] = l.cur,
                              !.spaces[1 - map.current].buckets = l.obuckets,
                              !.migrateDir = 0, !.toMigrate = 0, !.migratePos = 0],
          status |-> "ok"]
    ELSE [map |-> [map EXCEPT !.spaces[map.current] = l.cur,
                              !.spaces[1 - map.current].buckets = l.obuckets,
                              !.toMigrate = l.left, !.migratePos = l.pos],
          status |-> l.status]

\* the end of hsMigrate, l being what the loop returned: free the previous
\* space when nothing is left, otherwise only update the migration state
hsMigrateEnd(map, l) ==
    IF l.status = "ok" /\ l.left = 0
    THEN [map |-> [map EXCEPT !.spaces[map.current] = l.cur,
                              !.spaces[1 - map.current].buckets = NULL,
                              !.migrateDir = 0, !.toMigrate = 0, !.migratePos = 0],
          status |-> "ok"]
    ELSE [map |-> [map EXCEPT !.spaces[map.current] = l.cur,
                              !.spaces[1 - map.current].buckets = l.obuckets,
                              !.toMigrate = l.left, !.migratePos = l.pos],
          status |-> l.status]

\* migrate up to batchSize slots from the previous space to the current space
hsMigrate(map, batchSize) ==
    hsMigrateEnd(map,
        hsMigrateLoop(map.spaces[map.current], map.spaces[1 - map.current].buckets,
                      map.toMigrate, map.migratePos, 0, batchSize))

\* a variant of the start of triggerResize that flips the spaces of an empty
\* map without freeing their bucket arrays
triggerResizeFlipKeep(map, dir) ==
    IF map.count # 0
    THEN [map EXCEPT !.migrateDir = dir, !.toMigrate = map.spaces[map.current].size,
                     !.migratePos = 0, !.current = 1 - map.current]
    ELSE [map EXCEPT !.current = 1 - map.current]

\* a variant of the start of triggerResize that reads the size to migrate
\* after the spaces are flipped around, from the new current space
triggerResizeFlipLate(map, dir) ==
    IF map.count # 0
    THEN [map EXCEPT !.migrateDir = dir, !.toMigrate = map.spaces[1 - map.current].size,
                     !.migratePos = 0, !.current = 1 - map.current]
    ELSE [map EXCEPT !.spaces[0].buckets = NULL, !.spaces[1].buckets = NULL,
                     !.current = 1 - map.current]

\* a variant of the start of triggerResize without the special case of the
\* empty map: the migration is enqueued whatever count is
triggerResizeFlipQueue(map, dir) ==
    [map EXCEPT !.migrateDir = dir, !.toMigrate = map.spaces[map.current].size,
                !.migratePos = 0, !.current = 1 - map.current]

\* the start of triggerResize: enqueue the migration, or free both spaces of
\* an empty map; then flip the spaces around
triggerResizeFlip(map, dir) ==
    IF map.count # 0
    THEN [map EXCEPT !.migrateDir = dir, !.toMigrate = map.spaces[map.current].size,
                     !.migratePos = 0, !.current = 1 - map.current]
    ELSE [map EXCEPT !.spaces[0].buckets = NULL, !.spaces[1].buckets = NULL,
                     !.current = 1 - map.current]

\* a variant of the end of triggerResize without the migrate-all case: the
\* migration is always left to the following calls
triggerResizeDefer(map) == [map |-> map, status |-> "ok"]

\* the end of triggerResize: migrate all at once if we need to
triggerResizeMigrate(map) ==
    IF map.batchSize = HMAP_MIGRATE_ALL /\ map.count > 0
    THEN hsMigrate(map, map.toMigrate)
    ELSE [map |-> map, status |-> "ok"]

\* start a resize of the hash map, dir 1 = grow, -1 = shrink
triggerResize(map, dir) ==
    triggerResizeMigrate(
        hsInit(triggerResizeFlip(map, dir), 1 - map.current,
               IF map.count # 0 THEN map.spaces[map.current].log2size + dir
               ELSE map.minSize))

(* ----------------------------------------------------------------------- *)
(* Map operations                                                          *)
(* ----------------------------------------------------------------------- *)
\* an HmapEntry pointer: NULL, or the space and the slot it points into
EntryPtr(s, slot) == IF slot = NoEntry THEN NULL ELSE [space |-> s, slot |-> slot]

\* an HmapResult
HmapResult(s, slot, exists) == [entry |-> EntryPtr(s, slot), exists |-> exists]

\* hmGet after the fetch from the primary space, which returned slot e1
hmGetOther(map, key, e1) ==
    IF e1 = NoEntry /\ map.toMigrate # 0
    THEN HmapResult(1 - map.current,
                    hsFetch(map.spaces[1 - map.current], key,
                            map.spaces[1 - map.current].maxOffset),
                    TRUE)
    ELSE HmapResult(map.current, e1, TRUE)

\* exists is false when the entry is NULL
hmGetResult(ret) == [entry |-> ret.entry, exists |-> ret.entry # NULL]

\* get entry from map: result has pointer to the entry and an 'exists' bool
hmGet(map, key) ==
    hmGetResult(hmGetOther(map, key,
        hsFetch(map.spaces[map.current], key, map.spaces[map.current].maxOffset)))

\* a map operation's outcome: t is what triggerResize or hsMigrate returned
Outcome(t, ret) == [map |-> t.map, ret |-> ret, status |-> t.status]

\* a variant of the end of hmPut that starts growing also when a migration
\* is in flight
hmPutGrowAlways(m, c, ret) ==
    IF m.spaces[c].maxOffset = m.spaces[c].offsetLimit \/ m.count >= m.growCount
    THEN Outcome(triggerResize(m, HMAP_GROW), ret)
    ELSE [map |-> m, ret |-> ret, status |-> "ok"]

\* the end of hmPut, m being the map with count incremented: start growing if
\* we have hit a limit, but not when already migrating
hmPutGrow(m, c, ret) ==
    IF m.toMigrate = 0
       /\ (m.spaces[c].maxOffset = m.spaces[c].offsetLimit \/ m.count >= m.growCount)
    THEN Outcome(triggerResize(m, HMAP_GROW), ret)
    ELSE [map |-> m, ret |-> ret, status |-> "ok"]

\* hmPut after the insertion into the current space c, which returned r
hmPutInserted(map, c, r) ==
    IF r.status # "ok" \/ r.exists
    THEN [map |-> [map EXCEPT !.spaces[c] = r.space],
          ret |-> HmapResult(c, r.entry, r.exists), status |-> r.status]
    ELSE hmPutGrow([map EXCEPT !.spaces[c] = r.space, !.count = map.count + 1],
                   c, HmapResult(c, r.entry, FALSE))

\* hmPut from the insertion into the current space c on
hmPutInsert(map, c, key, value) ==
    hmPutInserted(map, c, hsInsert(map.spaces[c], key, value))

\* hmPut after the migration step, which returned g
hmPutMigrated(g, c, key, value) ==
    IF g.status # "ok"
    THEN [map |-> g.map, ret |-> HmapResult(c, NoEntry, FALSE), status |-> g.status]
    ELSE hmPutInsert(g.map, c, key, value)

\* hmPut during a migration, after the fetch from the previous space
hmPutMigrating(map, key, value, entry) ==
    IF entry # NoEntry
    THEN [map |-> map, ret |-> HmapResult(1 - map.current, entry, TRUE), status |-> "ok"]
    ELSE hmPutMigrated(hsMigrate(map, map.batchSize), map.current, key, value)

\* put an entry into map
hmPut(map, key, value) ==
    IF map.toMigrate # 0
    THEN hmPutMigrating(map, key, value,
             hsFetch(map.spaces[1 - map.current], key,
                     map.spaces[1 - map.current].maxOffset))
    ELSE hmPutInsert(map, map.current, key, value)

\* a variant of the end of hmRemove that triggers the shrink also when a
\* migration is in flight
hmRemoveShrinkAlways(m, c) ==
    IF m.count <= m.shrinkCount /\ m.spaces[c].log2size > m.minSize
    THEN Outcome(triggerResize(m, HMAP_SHRINK), TRUE)
    ELSE [map |-> m, ret |-> TRUE, status |-> "ok"]

\* the end of hmRemove, m being the map with count decremented: trigger a
\* resize if we have hit a limit and are not migrating, not below minimum size
hmRemoveShrink(m, c) ==
    IF m.toMigrate = 0 /\ m.count <= m.shrinkCount /\ m.spaces[c].log2size > m.minSize
    THEN Outcome(triggerResize(m, HMAP_SHRINK), TRUE)
    ELSE [map |-> m, ret |-> TRUE, status |-> "ok"]

\* hmRemove after the removal from the current space c, which returned r
hmRemoveRemoved(map, c, r) ==
    IF r.status = "ok" /\ r.found
    THEN hmRemoveShrink([map EXCEPT !.spaces[c] = r.space, !.count = map.count - 1], c)
    ELSE [map |-> [map EXCEPT !.spaces[c] = r.space], ret |-> FALSE, status |-> r.status]

\* hmRemove from the removal from the current space c on
hmRemoveCurrent(map, c, key, nullRead) ==
    hmRemoveRemoved(map, c, hsRemove(map.spaces[c], key, nullRead))

\* hmRemove after the migration step that follows a miss in the previous space
hmRemoveMigrated(g, c, key, nullRead) ==
    IF g.status # "ok"
    THEN [map |-> g.map, ret |-> FALSE, status |-> g.status]
    ELSE hmRemoveCurrent(g.map, c, key, nullRead)

\* hmRemove during a migration, after hsRemove on the previous space returned r
hmRemoveOther(map, key, nullRead, r) ==
    IF r.status # "ok"
    THEN [map |-> map, ret |-> FALSE, status |-> r.status]
    ELSE IF r.found
    THEN Outcome(hsMigrate([map EXCEPT !.spaces[1 - map.current] = r.space,
                                       !.count = map.count - 1],
                           map.batchSize),
                 TRUE)
    ELSE hmRemoveMigrated(hsMigrate(map, map.batchSize), map.current, key, nullRead)

\* remove key from map, return false if not found
hmRemove(map, key, nullRead) ==
    IF map.toMigrate # 0
    THEN hmRemoveOther(map, key, nullRead,
                       hsRemove(map.spaces[1 - map.current], key, nullRead))
    ELSE hmRemoveCurrent(map, map.current, key, nullRead)

\* the sanitised load factors of hmInitCustom
SaneGrowLoad(growLoad) ==
    IF growLoad <= 0 \/ growLoad >= LoadDen THEN HMAP_DEF_GROW_LOAD ELSE growLoad

SaneShrinkLoad(growLoad, shrinkLoad) ==
    LET g == SaneGrowLoad(growLoad)
        s == IF shrinkLoad <= 0 \/ shrinkLoad >= LoadDen THEN HMAP_DEF_SHRINK_LOAD
             ELSE shrinkLoad
    IN  IF 2 * s > g THEN g \div 2 ELSE s

\* the sanitised batch size of hmInitCustom; it is computed from the load
\* factor arguments, not from the sanitised values (shrinkLoad > 0 here)
SaneBatchSize(growLoad, shrinkLoad, batchSize) ==
    IF batchSize = HMAP_MIGRATE_ALL THEN batchSize
    ELSE LET b == IF batchSize * shrinkLoad < growLoad + shrinkLoad
                  THEN (growLoad + shrinkLoad) \div shrinkLoad ELSE batchSize
         IN  IF b < HMAP_MIN_BATCHSIZE THEN HMAP_MIN_BATCHSIZE ELSE b

\* the sanitised minimum size of hmInitCustom
SaneMinSize(minsize_log2) ==
    IF minsize_log2 < HMAP_MIN_LOG2SIZE THEN HMAP_MIN_LOG2SIZE
    ELSE IF minsize_log2 > HMAP_MAX_BITS THEN HMAP_MAX_BITS
    ELSE minsize_log2

\* a variant of hmInitCustom that initialises the current space before it
\* sets the minimum size (minSize is still 0 from the memset)
hmInitCustomLate(minsize_log2, growLoad, shrinkLoad, offsetLimitMult, batchSize) ==
    [hsInit([spaces |-> [i \in 0 .. 1 |-> ZeroSpace], count |-> 0,
             minSize |-> 0,
             growCount |-> 0, shrinkCount |-> 0, toMigrate |-> 0, migratePos |-> 0,
             offsetMult |-> offsetLimitMult,
             batchSize |-> SaneBatchSize(growLoad, shrinkLoad, batchSize),
             migrateDir |-> 0, growLoad |-> SaneGrowLoad(growLoad),
             shrinkLoad |-> SaneShrinkLoad(growLoad, shrinkLoad), current |-> 0],
            0, minsize_log2)
     EXCEPT !.minSize = SaneMinSize(minsize_log2)]

\* init a hash map with custom parameters
hmInitCustom(minsize_log2, growLoad, shrinkLoad, offsetLimitMult, batchSize) ==
    hsInit([spaces |-> [i \in 0 .. 1 |-> ZeroSpace], count |-> 0,
            minSize |-> SaneMinSize(minsize_log2),
            growCount |-> 0, shrinkCount |-> 0, toMigrate |-> 0, migratePos |-> 0,
            offsetMult |-> offsetLimitMult,
            batchSize |-> SaneBatchSize(growLoad, shrinkLoad, batchSize),
            migrateDir |-> 0, growLoad |-> SaneGrowLoad(growLoad),
            shrinkLoad |-> SaneShrinkLoad(growLoad, shrinkLoad), current |-> 0],
           0, SaneMinSize(minsize_log2))

\* the while loop of hmInitSize: make sure we do not grow when reaching the
\* recommended size
RECURSIVE hmInitSizeLoop(_, _)
hmInitSizeLoop(minsize, log2size) ==
    IF minsize * LoadDen >= HMAP_DEF_GROW_LOAD * Pow2(log2size)
    THEN hmInitSizeLoop(minsize, log2size + 1)
    ELSE log2size

\* the log2 of the size hmInitSize chooses for minsize items
hmInitSizeLog2(minsize, log2size) ==
    hmInitSizeLoop(minsize, IF minsize > Pow2(log2size) THEN log2size + 1 ELSE log2size)

\* init a hash map to hold specified minimum item count
hmInitSize(minsize) ==
    hmInitCustom(hmInitSizeLog2(minsize, log2_32(minsize)),
                 HMAP_DEF_GROW_LOAD, HMAP_DEF_SHRINK_LOAD, HMAP_DEF_MAX_OFFSET_MULT,
                 HMAP_MIN_BATCHSIZE)

\* memset(map, 0, sizeof(Hmap))
memsetHmap ==
    [spaces |-> [i \in 0 .. 1 |-> ZeroSpace], count |-> 0, minSize |-> 0,
     growCount |-> 0, shrinkCount |-> 0, toMigrate |-> 0, migratePos |-> 0,
     offsetMult |-> 0, batchSize |-> 0, migrateDir |-> 0, growLoad |-> 0,
     shrinkLoad |-> 0, current |-> 0]

\* the number of bucket arrays hmFree passes to free()
FreedArrays(map) == Cardinality({s \in 0 .. 1 : map.spaces[s].buckets # NULL})

\* a variant of hmFree that frees the bucket arrays and leaves out the memset
hmFreeKeep(map) ==
    [map EXCEPT !.spaces[0].buckets = NULL, !.spaces[1].buckets = NULL]

\* free a hash map: both bucket arrays are freed, then the Hmap is zeroed
hmFree(map) ==
    [[map EXCEPT !.spaces[0].buckets = NULL, !.spaces[1].buckets = NULL]
        EXCEPT !.spaces = memsetHmap.spaces, !.count = 0, !.minSize = 0,
               !.growCount = 0, !.shrinkCount = 0, !.toMigrate = 0, !.migratePos = 0,
               !.offsetMult = 0, !.batchSize = 0, !.migrateDir = 0, !.growLoad = 0,
               !.shrinkLoad = 0, !.current = 0]

(* ----------------------------------------------------------------------- *)
(* The state machine: a caller of the library                              *)
(* ----------------------------------------------------------------------- *)
VARIABLES
    map,     \* the Hmap
    status,  \* "ok", or how the process ended: "segv" (null read), "hang"
    live,    \* what the caller put and has not removed: key -> value, 0 = absent
    last,    \* the last call and what it returned
    drv      \* the caller: its phase and how many keys it has put and removed

vars == <<map, status, live, last, drv>>

NoValue == 0

LiveKeys == {k \in DOMAIN live : live[k] # NoValue}

\* the number of in-use buckets of a space
InUse(space) ==
    IF space.buckets = NULL THEN 0
    ELSE Cardinality({i \in DOMAIN space.buckets : space.buckets[i].inuse})

\* the effect of a call that returned r on the library, and on what the
\* caller holds: a key is held from an hmPut that returned exists = false to
\* an hmRemove that returned true
Returned(op, k, r, ret, held) ==
    /\ map' = r.map
    /\ status' = r.status
    /\ live' = IF r.status = "ok" /\ held # live[k] THEN [live EXCEPT ![k] = held] ELSE live
    /\ last' = [op |-> op, key |-> k, ret |-> ret]

PutReturned(k, v, r) ==
    Returned("put", k, r, r.ret.exists, IF r.ret.exists THEN live[k] ELSE v)

RemoveReturned(k, r) ==
    Returned("remove", k, r, r.ret, IF r.ret THEN NoValue ELSE live[k])

DoPut(k, v) == PutReturned(k, v, hmPut(map, k, v))

DoRemove(k) == \E nullRead \in {"trap", "zero"} : RemoveReturned(k, hmRemove(map, k, nullRead))

\* a variant of hmGet that continues the migration the way hmPut and hmRemove
\* do; hmGet does not
DoGetMigrating(k) ==
    /\ last' = [op |-> "get", key |-> k, ret |-> hmGet(map, k).exists]
    /\ map' = hsMigrate(map, map.batchSize).map
    /\ UNCHANGED <<status, live>>

DoGet(k) ==
    /\ last' = [op |-> "get", key |-> k, ret |-> hmGet(map, k).exists]
    /\ UNCHANGED <<map, status, live>>

Start(cfgs, keys, phase) ==
    /\ \E cfg \in cfgs :
          map = hmInitCustom(cfg.minsize_log2, cfg.growLoad, cfg.shrinkLoad,
                             cfg.offsetLimitMult, cfg.batchSize)
    /\ status = "ok"
    /\ live = [k \in keys |-> NoValue]
    /\ last = [op |-> "init", key |-> 0, ret |-> FALSE]
    /\ drv = [phase |-> phase, nput |-> 0, nrem |-> 0]

(* the mixed caller: any key, any call, in any order *)
Init == Start(Configs, Keys, "mixed")

Bounded ==
    /\ map'.spaces[map'.current].log2size <= MaxLog2
    /\ map'.count - Cardinality({k \in Keys : live'[k] # NoValue}) <= MaxDrift

Put(k) ==
    /\ status = "ok"
    /\ DoPut(k, IF live[k] = NoValue THEN NewValue(k) ELSE OtherValue(k))
    /\ Bounded
    /\ UNCHANGED drv

Get(k) ==
    /\ status = "ok"
    /\ DoGet(k)
    /\ UNCHANGED drv

Remove(k) ==
    /\ status = "ok"
    /\ DoRemove(k)
    /\ Bounded
    /\ UNCHANGED drv

Next ==
    \/ \E k \in Keys : Put(k)
    \/ \E k \in Keys : Get(k)
    \/ \E k \in Keys : Remove(k)

Spec == Init /\ [][Next]_vars

(* the sequential caller: it puts the keys 0, 1, 2, ... in order (phase     *)
(* "fill"), then removes keys in the same order ("drain"), then goes on     *)
(* putting new keys ("refill"), and looks keys up in between                *)
InitFill == Start(FillConfigs, 0 .. MaxFill - 1, "fill")

FillPut ==
    /\ status = "ok"
    /\ drv.phase \in {"fill", "refill"}
    /\ drv.nput < MaxFill
    /\ DoPut(drv.nput, NewValue(drv.nput))
    /\ drv' = [drv EXCEPT !.nput = drv.nput + 1]

FillRemove ==
    /\ status = "ok"
    /\ drv.phase \in {"fill", "drain"}
    /\ drv.nrem < drv.nput
    /\ DoRemove(drv.nrem)
    /\ drv' = [drv EXCEPT !.nrem = drv.nrem + 1, !.phase = "drain"]

FillRefill ==
    /\ status = "ok"
    /\ drv.phase = "drain"
    /\ drv.nput < MaxFill
    /\ DoPut(drv.nput, NewValue(drv.nput))
    /\ drv' = [drv EXCEPT !.nput = drv.nput + 1, !.phase = "refill"]

FillGet ==
    /\ status = "ok"
    /\ drv.nput > 0
    /\ last.op # "get"
    /\ DoGet(drv.nput - 1)
    /\ UNCHANGED drv

NextFill == FillPut \/ FillRemove \/ FillRefill \/ FillGet

SpecFill == InitFill /\ [][NextFill]_vars

(* the colliding caller: it puts keys that share one home slot (slot 20 of  *)
(* 32, slot 40 of 64) in order, removes them in the same order, and looks   *)
(* up keys it has put                                                       *)
ProbeKeys == <<35, 124, 179, 268, 357, 412, 501, 556, 590, 645, 734, 789, 878, 933>>

\* the defaults of hmInit, and the same with a minimum size below
\* HMAP_MIN_LOG2SIZE, which hmInitCustom raises to it
ProbeConfigs ==
    { [minsize_log2 |-> HMAP_MIN_LOG2SIZE, growLoad |-> HMAP_DEF_GROW_LOAD,
       shrinkLoad |-> HMAP_DEF_SHRINK_LOAD, offsetLimitMult |-> 1,
       batchSize |-> HMAP_MIN_BATCHSIZE],
      [minsize_log2 |-> 0, growLoad |-> HMAP_DEF_GROW_LOAD,
       shrinkLoad |-> HMAP_DEF_SHRINK_LOAD, offsetLimitMult |-> 1,
       batchSize |-> HMAP_MIN_BATCHSIZE] }

InitProbe == Start(ProbeConfigs, {ProbeKeys[i] : i \in DOMAIN ProbeKeys}, "probe")

ProbePut ==
    /\ status = "ok"
    /\ drv.nput < Len(ProbeKeys)
    /\ DoPut(ProbeKeys[drv.nput + 1], NewValue(ProbeKeys[drv.nput + 1]))
    /\ drv' = [drv EXCEPT !.nput = drv.nput + 1]

ProbeRemove ==
    /\ status = "ok"
    /\ drv.nrem < drv.nput
    /\ DoRemove(ProbeKeys[drv.nrem + 1])
    /\ drv' = [drv EXCEPT !.nrem = drv.nrem + 1]

ProbeGet ==
    /\ status = "ok"
    /\ drv.nput > 0
    /\ last.op # "get"
    /\ DoGet(ProbeKeys[drv.nput])
    /\ UNCHANGED drv

NextProbe == ProbePut \/ ProbeRemove \/ ProbeGet

SpecProbe == InitProbe /\ [][NextProbe]_vars

(* the restarting caller: the colliding caller, which may also free the map  *)
(* at any point (status "freed": the Hmap is not initialised), initialise it *)
(* again and start over, as main does between its search and removal tests  *)
Free ==
    /\ status = "ok"
    /\ map' = hmFree(map)
    /\ status' = "freed"
    /\ live' = [k \in DOMAIN live |-> NoValue]
    /\ last' = [op |-> "free", key |-> 0, ret |-> FreedArrays(map)]
    /\ UNCHANGED drv

Reinit ==
    /\ status = "freed"
    /\ \E cfg \in ProbeConfigs :
          map' = hmInitCustom(cfg.minsize_log2, cfg.growLoad, cfg.shrinkLoad,
                              cfg.offsetLimitMult, cfg.batchSize)
    /\ status' = "ok"
    /\ last' = [op |-> "init", key |-> 0, ret |-> FALSE]
    /\ drv' = [drv EXCEPT !.nput = 0, !.nrem = 0]
    /\ UNCHANGED live

NextFree == ProbePut \/ ProbeRemove \/ ProbeGet \/ Free \/ Reinit

SpecFree == InitProbe /\ [][NextFree]_vars

(* the sized caller: it initialises the map with hmInitSize for n items and *)
(* puts n distinct keys, sequential ones (0, 1, 2, ...) or colliding ones    *)
(* (ProbeKeys), looking up the key it has just put                          *)
MaxItems == 23

SizeKey(family, i) == IF family = "probe" THEN ProbeKeys[i + 1] ELSE i

InitSize ==
    /\ \E n \in 1 .. MaxItems : \E family \in {"seq", "probe"} :
          /\ family = "probe" => n <= Len(ProbeKeys)
          /\ map = hmInitSize(n)
          /\ drv = [phase |-> "size", nput |-> 0, nrem |-> 0, n |-> n, family |-> family]
    /\ status = "ok"
    /\ live = [k \in (0 .. MaxItems - 1) \cup {ProbeKeys[i] : i \in DOMAIN ProbeKeys} |-> NoValue]
    /\ last = [op |-> "init", key |-> 0, ret |-> FALSE]

SizePut ==
    /\ status = "ok"
    /\ drv.nput < drv.n
    /\ DoPut(SizeKey(drv.family, drv.nput), NewValue(SizeKey(drv.family, drv.nput)))
    /\ drv' = [drv EXCEPT !.nput = drv.nput + 1]

SizeGet ==
    /\ status = "ok"
    /\ drv.nput > 0
    /\ last.op # "get"
    /\ DoGet(SizeKey(drv.family, drv.nput - 1))
    /\ UNCHANGED drv

NextSize == SizePut \/ SizeGet

SpecSize == InitSize /\ [][NextSize]_vars

(* the configuring caller: it initialises the map with hmInitCustom, then   *)
(* frees it and initialises it again with other arguments                   *)
\* load factor arguments in units of 1 / LoadDen, some of them out of range
ArgGrowLoads == {0, 130, 700, 900, 1500}
ArgShrinkLoads == {10, 65, 200, 350, 900}
ArgBatchSizes == {HMAP_MIGRATE_ALL, 1, 4, 5, 6, 16}
ArgConfigs ==
    [minsize_log2 : {0, HMAP_MIN_LOG2SIZE}, growLoad : ArgGrowLoads,
     shrinkLoad : ArgShrinkLoads, offsetLimitMult : {HMAP_DEF_MAX_OFFSET_MULT},
     batchSize : ArgBatchSizes]

ArgsStart(cfg) ==
    /\ map = hmInitCustom(cfg.minsize_log2, cfg.growLoad, cfg.shrinkLoad,
                          cfg.offsetLimitMult, cfg.batchSize)
    /\ drv = [phase |-> "args", nput |-> 0, nrem |-> 0, args |-> cfg]

InitArgs ==
    /\ \E cfg \in ArgConfigs : ArgsStart(cfg)
    /\ status = "ok"
    /\ live = [k \in Keys |-> NoValue]
    /\ last = [op |-> "init", key |-> 0, ret |-> FALSE]

ArgsReinit ==
    /\ status = "ok"
    /\ \E cfg \in ArgConfigs :
          /\ cfg # drv.args
          /\ map' = hmInitCustom(cfg.minsize_log2, cfg.growLoad, cfg.shrinkLoad,
                                 cfg.offsetLimitMult, cfg.batchSize)
          /\ drv' = [drv EXCEPT !.args = cfg]
    /\ last' = [op |-> "init", key |-> 0, ret |-> hmFree(map) = memsetHmap]
    /\ UNCHANGED <<status, live>>

NextArgs == ArgsReinit

SpecArgs == InitArgs /\ [][NextArgs]_vars

(* ----------------------------------------------------------------------- *)
(* Properties                                                              *)
(* ----------------------------------------------------------------------- *)
NullReads == {"trap", "zero"}

\* the entry pointer e points, in map m, into an allocated bucket array, at an
\* in-use bucket holding key k and value v
HeldAt(m, e, k, v) ==
    /\ e # NULL
    /\ m.spaces[e.space].buckets # NULL
    /\ LET b == m.spaces[e.space].buckets[e.slot]
       IN  b.inuse /\ b.key = k /\ b.value = v

\* the keys held by in-use buckets of space s of map m
KeysIn(m, s) ==
    IF m.spaces[s].buckets = NULL THEN {}
    ELSE {m.spaces[s].buckets[i].key :
             i \in {j \in DOMAIN m.spaces[s].buckets : m.spaces[s].buckets[j].inuse}}

\* the keys held by the current space and, during a migration, the previous one
KeysHeld(m) ==
    KeysIn(m, m.current) \cup (IF m.toMigrate > 0 THEN KeysIn(m, Other(m)) ELSE {})

\* C1: round trip.  Every key the caller has put (hmPut returned exists =
\* false) and not removed since is found by hmGet, with its key and the value
\* put, during a migration or not, whichever space holds it.
C1_RoundTrip ==
    status = "ok" =>
        \A k \in LiveKeys :
            LET r == hmGet(map, k)
            IN  r.exists /\ HeldAt(map, r.entry, k, live[k])

\* C2: idempotent remove.  For a key the caller holds, hmRemove returns true
\* and count decreases by exactly one; a second hmRemove of the key right
\* after it returns false and leaves count unchanged.
C2_IdempotentRemove ==
    status = "ok" =>
        \A k \in LiveKeys : \A n1 \in NullReads, n2 \in NullReads :
            LET r1 == hmRemove(map, k, n1)
                r2 == hmRemove(r1.map, k, n2)
            IN  /\ r1.status = "ok" /\ r1.ret /\ r1.map.count = map.count - 1
                /\ r2.status = "ok" /\ ~r2.ret /\ r2.map.count = r1.map.count

\* C3: idempotent insert.  For a key the caller holds with value v, hmPut with
\* any value returns exists = true and an entry holding the key and v; count
\* is unchanged and the key is still found with value v.
C3_IdempotentInsert ==
    status = "ok" =>
        \A k \in LiveKeys : \A v \in {NewValue(k), OtherValue(k)} :
            LET r == hmPut(map, k, v)
            IN  /\ r.status = "ok" /\ r.ret.exists
                /\ HeldAt(r.map, r.ret.entry, k, live[k])
                /\ r.map.count = map.count
                /\ HeldAt(r.map, hmGet(r.map, k).entry, k, live[k])

\* C4: count accuracy.  count is the number of distinct keys held in in-use
\* buckets of the current space and, during a migration, the previous space.
C4_CountAccuracy ==
    status = "ok" => map.count = Cardinality(KeysHeld(map))

\* C5: after hmRemove(k) has returned true, hmGet(k) finds nothing: no copy of
\* k is left findable in either space.
C5_RemovedNotFound ==
    status = "ok" =>
        \A k \in DOMAIN live : \A n \in NullReads :
            LET r == hmRemove(map, k, n)
            IN  (r.status = "ok" /\ r.ret) => ~hmGet(r.map, k).exists

\* C6: key-not-found is a normal result.  For a key the caller does not hold,
\* hmGet returns a null entry and hmRemove returns false, leaving count and
\* the keys held unchanged; also on a fresh map and on a map whose current
\* space has no bucket array yet.
C6_NotFoundIsNormal ==
    status = "ok" =>
        \A k \in DOMAIN live \ LiveKeys : \A n \in NullReads :
            LET g == hmGet(map, k)
                r == hmRemove(map, k, n)
            IN  /\ ~g.exists /\ g.entry = NULL
                /\ r.status = "ok" /\ ~r.ret
                /\ r.map.count = map.count
                /\ KeysHeld(r.map) = KeysHeld(map)

\* C7: when hmPut(k, v) returns exists = false, the entry it returns points, as
\* hmPut returns, into an allocated bucket array at an in-use bucket holding k
\* and v; also when that hmPut triggers a grow, batched or migrate-all.
C7_PutEntryValid ==
    status = "ok" =>
        \A k \in DOMAIN live : \A v \in {NewValue(k), OtherValue(k)} :
            LET r == hmPut(map, k, v)
            IN  (r.status = "ok" /\ ~r.ret.exists) => HeldAt(r.map, r.ret.entry, k, v)

\* C8: every call terminates: the probe loop of hsInsert always reaches an
\* empty slot or the key.
C8_CallsTerminate == status # "hang"

\* C9: the current space never reaches 100% occupancy: its number of in-use
\* buckets is strictly less than its size.
C9_NeverFull ==
    InUse(map.spaces[map.current]) < map.spaces[map.current].size

\* C10: in each space, maxOffset is at least the offset of every in-use bucket.
C10_MaxOffsetBounds ==
    status = "ok" =>
        \A s \in 0 .. 1 :
            map.spaces[s].buckets # NULL =>
                \A i \in DOMAIN map.spaces[s].buckets :
                    map.spaces[s].buckets[i].inuse =>
                        map.spaces[s].buckets[i].offset <= map.spaces[s].maxOffset

\* C11: probe ceiling.  In every space, maxOffset is at most offsetLimit
\* (= offsetMult * log2size), during a migration and after it too.
C11_ProbeCeiling ==
    \A s \in 0 .. 1 : map.spaces[s].maxOffset <= map.spaces[s].offsetLimit

\* C12: during a migration every key the caller holds is in an in-use bucket
\* of exactly one of the two spaces: never in both, never in neither.
C12_ExactlyOneSpace ==
    (status = "ok" /\ map.toMigrate > 0) =>
        \A k \in LiveKeys :
            (k \in KeysIn(map, map.current)) # (k \in KeysIn(map, Other(map)))

\* the key -> value pairs held by in-use buckets of space s of map m
PairsIn(m, s) ==
    IF m.spaces[s].buckets = NULL THEN {}
    ELSE {<<m.spaces[s].buckets[i].key, m.spaces[s].buckets[i].value>> :
             i \in {j \in DOMAIN m.spaces[s].buckets : m.spaces[s].buckets[j].inuse}}

\* what the call that has just returned (last) did to the number of keys held
CountDelta(l) ==
    IF l.op = "put" /\ ~l.ret THEN 1
    ELSE IF l.op = "remove" /\ l.ret THEN -1
    ELSE 0

\* a step in which a call returns and the migration in flight has ended
MigrationEnds == map.toMigrate > 0 /\ map'.toMigrate = 0 /\ status' = "ok"

\* C13: migration completeness.  In the step in which toMigrate returns to 0,
\* the current space holds exactly the keys the caller holds, with their
\* values, the previous space's bucket array is freed, and count has changed
\* only by what the call itself put or removed.
C13_MigrationComplete ==
    [][MigrationEnds =>
          /\ PairsIn(map', map'.current) = {<<k, live'[k]>> : k \in LiveKeys'}
          /\ map'.spaces[Other(map')].buckets = NULL
          /\ map'.count = map.count + CountDelta(last')]_vars

\* C14: batch-size safety floor.  With a batch size other than
\* HMAP_MIGRATE_ALL, as clamped by hmInitCustom, the current space meets no
\* grow condition while a migration is in flight: count is below growCount
\* and maxOffset is below offsetLimit.
C14_BatchFloor ==
    (status = "ok" /\ map.toMigrate > 0 /\ map.batchSize # HMAP_MIGRATE_ALL) =>
        /\ map.count < map.growCount
        /\ map.spaces[map.current].maxOffset < map.spaces[map.current].offsetLimit

\* C15: during a migration, hmPut of a key held by an in-use bucket of the
\* previous space returns exists = true with that bucket as the entry, and
\* changes nothing in the map: no bucket, no count, no migration state.
C15_PutExistingFrame ==
    (status = "ok" /\ map.toMigrate > 0) =>
        \A k \in KeysIn(map, Other(map)) : \A v \in {NewValue(k), OtherValue(k)} :
            LET r == hmPut(map, k, v)
            IN  /\ r.status = "ok" /\ r.ret.exists
                /\ r.ret.entry # NULL
                /\ r.ret.entry.space = Other(map)
                /\ map.spaces[Other(map)].buckets[r.ret.entry.slot].key = k
                /\ r.map = map

\* C16: hmGet is read-only.  A call of hmGet, hit or miss, during a migration
\* or not, leaves the whole map unchanged: count, current, toMigrate,
\* migratePos, the metadata of both spaces and every bucket.
C16_GetReadOnly ==
    [][last'.op = "get" => map' = map]_vars

\* hmGet has returned a hit during a migration
C16_GetDuringMigration ==
    last.op = "get" /\ last.ret /\ map.toMigrate > 0 /\ status = "ok"

\* C17: after hmInitSize(map, n), putting n distinct keys triggers no resize:
\* toMigrate stays 0 and the current space is the one set up at init, with
\* the log2size chosen there.
C17_InitSizeNoResize ==
    status = "ok" =>
        /\ map.toMigrate = 0
        /\ map.current = 0
        /\ map.spaces[map.current].log2size = hmInitSize(drv.n).spaces[0].log2size

\* no bucket array is allocated in map m
NoBuckets(m) == m.spaces[0].buckets = NULL /\ m.spaces[1].buckets = NULL

\* a step in which hmRemove returns true and has brought count to 0
RemovedLast ==
    last'.op = "remove" /\ last'.ret /\ status' = "ok" /\ map'.count = 0

C19_MigrateAllSync ==
    (status = "ok" /\ map.batchSize = HMAP_MIGRATE_ALL) =>
        /\ map.toMigrate = 0
        /\ map.migratePos = 0
        /\ map.spaces[Other(map)].buckets = NULL
        /\ {<<k, live[k]>> : k \in LiveKeys} \subseteq PairsIn(map, map.current)

\* in migrate-all mode an hmPut has grown the map, and an hmRemove has shrunk
\* it again with keys left
C19_GrownThenShrunk ==
    /\ status = "ok" /\ map.batchSize = HMAP_MIGRATE_ALL
    /\ last.op = "remove" /\ last.ret
    /\ map.count > 0
    /\ map.spaces[Other(map)].log2size > map.spaces[map.current].log2size

\* C20: shrink floor.  The log2size of the current space is at least minSize
\* in every state, after grows, shrinks and resizes of an empty map.
C20_ShrinkFloor ==
    map.spaces[map.current].log2size >= map.minSize

\* a shrink to the minimum size is in flight
C20_ShrinkingToFloor ==
    /\ status = "ok" /\ map.toMigrate > 0 /\ map.migrateDir = HMAP_SHRINK
    /\ map.spaces[map.current].log2size = map.minSize

\* every field of the HmapSpace sp is zero and it holds no bucket array
SpaceZeroed(sp) ==
    /\ sp.buckets = NULL
    /\ \A f \in DOMAIN sp \ {"buckets"} : sp[f] = 0

\* C21: after hmFree, whatever state the map was in, both spaces hold no
\* bucket array and all map state is zero; once the map is initialised again
\* it is a freshly initialised map: count, toMigrate and migratePos are 0,
\* the current space is space 0 at the minimum size with no bucket array, and
\* no key put before the free is found by hmGet or reported by hmPut.
C21_FreeThenFresh ==
    /\ status = "freed" =>
          /\ SpaceZeroed(map.spaces[0]) /\ SpaceZeroed(map.spaces[1])
          /\ \A f \in DOMAIN map \ {"spaces"} : map[f] = 0
    /\ (status = "ok" /\ last.op = "init") =>
          /\ map.count = 0 /\ map.toMigrate = 0 /\ map.migratePos = 0
          /\ map.migrateDir = 0 /\ map.current = 0
          /\ NoBuckets(map)
          /\ map.spaces[0].log2size = map.minSize /\ map.spaces[0].maxOffset = 0
          /\ SpaceZeroed(map.spaces[1])
          /\ \A k \in DOMAIN live :
                /\ ~hmGet(map, k).exists
                /\ ~hmPut(map, k, NewValue(k)).ret.exists

\* hmFree has freed a map in the middle of a migration, with two bucket
\* arrays allocated
C21_FreedMidMigration ==
    status = "freed" /\ last.op = "free" /\ last.ret = 2

\* every in-use bucket of the bucket array after is the same bucket, in the
\* same slot with the same offset, in the bucket array before
BucketsStay(before, after) ==
    \A i \in DOMAIN after : after[i].inuse => after[i] = before[i]

Resized(m, m1) == m1.current # m.current

\* no migration is in flight in map m after the migration step a call of
\* hmPut or hmRemove makes first
MigrationOver(m) ==
    m.toMigrate = 0 \/ hsMigrate(m, m.batchSize).map.toMigrate = 0

\* C23: grow trigger.  An hmPut that inserts a new key increments count and
\* triggers a grow in the same call exactly when no migration is in flight
\* then and the space inserted into has maxOffset = offsetLimit or count has
\* reached the grow watermark of that space; an hmPut that finds the key
\* triggers no resize.
C23_GrowTrigger ==
    status = "ok" =>
        \A k \in DOMAIN live : \A v \in {NewValue(k), OtherValue(k)} :
            LET r == hmPut(map, k, v)
                p == r.map.spaces[map.current]
            IN  r.status = "ok" =>
                  IF r.ret.exists
                  THEN ~Resized(map, r.map) /\ r.map.count = map.count
                  ELSE /\ r.map.count = map.count + 1
                       /\ IF Resized(map, r.map)
                          THEN /\ MigrationOver(map)
                               /\ r.map.migrateDir \in {HMAP_GROW, 0}
                               /\ r.map.spaces[r.map.current].log2size = p.log2size + 1
                               /\ \/ p.maxOffset = p.offsetLimit
                                  \/ r.map.count >= growCountOf(r.map, p.size)
                          ELSE \/ r.map.toMigrate > 0
                               \/ /\ p.maxOffset # p.offsetLimit
                                  /\ r.map.count < r.map.growCount

\* an hmPut has inserted a new key and triggered a grow because maxOffset has
\* reached offsetLimit, count being below the grow watermark
C23_GrownAtOffsetLimit ==
    /\ status = "ok" /\ last.op = "put" /\ ~last.ret
    /\ map.migrateDir = HMAP_GROW
    /\ map.toMigrate = map.spaces[Other(map)].size /\ map.migratePos = 0
    /\ map.spaces[Other(map)].maxOffset = map.spaces[Other(map)].offsetLimit
    /\ map.count < growCountOf(map, map.spaces[Other(map)].size)

\* during a migration, hmRemove finds key k in the previous space of map m
FoundInPrevious(m, k, n) ==
    m.toMigrate > 0 /\ hsRemove(m.spaces[Other(m)], k, n).found

\* C24: shrink trigger.  An hmRemove that removes its key from the current
\* space decrements count and triggers a shrink in the same call exactly when
\* no migration is in flight then, count is at most the shrink watermark of
\* that space and its log2size is above minSize; an hmRemove that found its
\* key in the previous space, or found nothing, triggers no resize.
C24_ShrinkTrigger ==
    status = "ok" =>
        \A k \in DOMAIN live : \A n \in NullReads :
            LET r == hmRemove(map, k, n)
                p == r.map.spaces[map.current]
            IN  r.status = "ok" =>
                  IF ~r.ret
                  THEN ~Resized(map, r.map) /\ r.map.count = map.count
                  ELSE /\ r.map.count = map.count - 1
                       /\ FoundInPrevious(map, k, n) => ~Resized(map, r.map)
                       /\ ~FoundInPrevious(map, k, n) =>
                            IF Resized(map, r.map)
                            THEN /\ MigrationOver(map)
                                 /\ r.map.migrateDir \in {HMAP_SHRINK, 0}
                                 /\ r.map.spaces[r.map.current].log2size < p.log2size
                                 /\ r.map.count <= (p.size * r.map.shrinkLoad) \div LoadDen
                                 /\ p.log2size > r.map.minSize
                            ELSE \/ r.map.toMigrate > 0
                                 \/ r.map.count > r.map.shrinkCount
                                 \/ p.log2size <= r.map.minSize

\* an hmRemove has removed a key from the current space and triggered a
\* shrink, whose migration is queued
C24_ShrunkAtWatermark ==
    /\ status = "ok" /\ last.op = "remove" /\ last.ret
    /\ map.migrateDir = HMAP_SHRINK
    /\ map.toMigrate = map.spaces[Other(map)].size /\ map.migratePos = 0
    /\ map.count > 0 /\ map.count <= (map.spaces[Other(map)].size * map.shrinkLoad) \div LoadDen

\* the map as the migration step at the start of hmPut and hmRemove leaves it
AfterStep(m) == IF m.toMigrate = 0 THEN m ELSE hsMigrate(m, m.batchSize).map

\* map m1 is map m with a resize in direction dir queued: old is the space
\* that was current in m, new the current space of m1
ResizeQueued(m, m1, old, new, dir) ==
    /\ m1.current = 1 - m.current
    /\ m1.migrateDir = dir /\ m1.toMigrate = old.size /\ m1.migratePos = 0
    /\ new.log2size = old.log2size + dir /\ new.log2size >= m1.minSize
    /\ new.size = Pow2(new.log2size) /\ new.mask = new.size - 1
    /\ new.shift = HMAP_MAX_BITS - new.log2size
    /\ new.maxOffset = 0 /\ new.offsetLimit = m1.offsetMult * new.log2size
    /\ new.buckets = NULL
    /\ m1.shrinkCount = (new.size * m1.shrinkLoad) \div LoadDen
    /\ m1.growCount = IF (new.size * m1.growLoad) \div LoadDen > new.mask THEN new.mask
                      ELSE (new.size * m1.growLoad) \div LoadDen
    /\ m1.growCount <= new.mask

\* the call that returned r has triggered a batched resize with keys to migrate
QueuesResize(m, r) ==
    /\ r.status = "ok" /\ Resized(m, r.map)
    /\ r.map.count > 0 /\ m.batchSize # HMAP_MIGRATE_ALL

\* C25: resize protocol with count > 0, in batched mode.  A call that triggers
\* a resize leaves toMigrate at the old current space's size, migratePos at 0,
\* current flipped, and the new current space initialised for log2size = old
\* log2size + dir (at least minSize): maxOffset 0, offsetLimit = offsetMult *
\* log2size, no bucket array, the watermarks recomputed from the new size with
\* growCount <= mask; the old space is as the call's own insertion or removal
\* left it, buckets and metadata.
C25_ResizeProtocol ==
    status = "ok" =>
        /\ \A k \in DOMAIN live : \A v \in {NewValue(k), OtherValue(k)} :
              LET r == hmPut(map, k, v)
              IN  QueuesResize(map, r) =>
                    /\ ResizeQueued(map, r.map, map.spaces[map.current],
                                    r.map.spaces[r.map.current], HMAP_GROW)
                    /\ r.map.spaces[map.current] =
                          hsInsert(AfterStep(map).spaces[map.current], k, v).space
        /\ \A k \in DOMAIN live : \A n \in NullReads :
              LET r == hmRemove(map, k, n)
              IN  QueuesResize(map, r) =>
                    /\ ResizeQueued(map, r.map, map.spaces[map.current],
                                    r.map.spaces[r.map.current], HMAP_SHRINK)
                    /\ r.map.spaces[map.current] =
                          hsRemove(AfterStep(map).spaces[map.current], k, n).space

\* a call has just queued a resize: the new current space has no bucket array
\* yet and the previous space still holds every key
C25_ResizeJustQueued ==
    /\ status = "ok" /\ last.op \in {"put", "remove"}
    /\ map.count > 0 /\ map.migratePos = 0
    /\ map.toMigrate = map.spaces[Other(map)].size
    /\ map.spaces[map.current].buckets = NULL
    /\ map.spaces[Other(map)].buckets # NULL
    /\ InUse(map.spaces[Other(map)]) = map.count

\* C26: empty-map resize.  A call that triggers a resize with count = 0 leaves
\* both spaces without a bucket array, enqueues no migration (toMigrate and
\* migratePos stay 0, as does migrateDir), and leaves the new current space
\* initialised at log2size = minSize.
C26_EmptyResize ==
    [][(status' = "ok" /\ Resized(map, map') /\ map'.count = 0) =>
          /\ NoBuckets(map')
          /\ map'.toMigrate = 0 /\ map'.migratePos = 0 /\ map'.migrateDir = 0
          /\ map'.spaces[map'.current] = hsInitSpace(map', map'.minSize)
          /\ map'.growCount = growCountOf(map', Pow2(map'.minSize))]_vars

\* the last key has been removed from a map grown to 64 slots: the spaces are
\* flipped, nothing is queued and no bucket array is left
C26_EmptiedAndFlipped ==
    /\ status = "ok" /\ last.op = "remove" /\ last.ret /\ map.count = 0
    /\ map.toMigrate = 0 /\ map.migrateDir = 0
    /\ map.spaces[Other(map)].log2size = map.minSize + 1
    /\ map.spaces[Other(map)].buckets = NULL
    /\ map.spaces[map.current] = hsInitSpace(map, map.minSize)

Min(a, b) == IF a < b THEN a ELSE b

\* hsMigrate has taken map m to map m1 and examined n slots of the previous
\* space, whose bucket array was ob, from slot m.migratePos on
MigratedSlots(m, m1, ob, n) ==
    /\ m.migratePos + n <= m.spaces[Other(m)].size
    /\ \A i \in m.migratePos .. m.migratePos + n - 1 :
          ob[i].inuse =>
              /\ <<ob[i].key, ob[i].value>> \in PairsIn(m1, m.current)
              /\ m1.spaces[Other(m)].buckets # NULL =>
                    m1.spaces[Other(m)].buckets[i] = [ob[i] EXCEPT !.inuse = FALSE]
    /\ m1.spaces[Other(m)].buckets # NULL =>
          \A i \in DOMAIN ob \ (m.migratePos .. m.migratePos + n - 1) :
              m1.spaces[Other(m)].buckets[i] = ob[i]
    /\ IF m.toMigrate = n
       THEN /\ m1.toMigrate = 0 /\ m1.migratePos = 0 /\ m1.migrateDir = 0
            /\ m1.spaces[Other(m)].buckets = NULL
       ELSE /\ m1.toMigrate = m.toMigrate - n /\ m1.migratePos = m.migratePos + n
            /\ m1.migrateDir = m.migrateDir
            /\ m1.spaces[Other(m)].buckets # NULL

\* C27: batched migration step.  One call of hsMigrate(map, batchSize) with
\* toMigrate > 0 examines min(batchSize, toMigrate) consecutive slots of the
\* previous space from migratePos on, none beyond its size; each in-use bucket
\* among them is then in the current space with its key and value and is
\* marked not in use in the previous space, whose other slots are unchanged;
\* migratePos and toMigrate move by the number of slots examined, and when
\* toMigrate reaches 0 the previous bucket array is freed and toMigrate,
\* migratePos and migrateDir are 0.
C27_MigrateStep ==
    (status = "ok" /\ map.toMigrate > 0) =>
        LET g == hsMigrate(map, map.batchSize)
        IN  /\ g.status = "ok"
            /\ MigratedSlots(map, g.map, map.spaces[Other(map)].buckets,
                             Min(map.batchSize, map.toMigrate))

\* the call that took map m to map m1 has advanced the migration cursor of m
\* by one batch: by batchSize slots, or by the toMigrate slots that were left,
\* which ends the migration (the call may then have queued the next resize)
Advanced(m, m1) ==
    IF m.toMigrate <= m.batchSize
    THEN Resized(m, m1) \/ (m1.toMigrate = 0 /\ m1.migratePos = 0)
    ELSE /\ ~Resized(m, m1)
         /\ m1.toMigrate = m.toMigrate - m.batchSize
         /\ m1.migratePos = m.migratePos + m.batchSize

\* C28: bounded migration progress.  While a batched migration from a space
\* of size S is in flight, the cursor has advanced by whole batches
\* (migratePos is a multiple of batchSize and migratePos + toMigrate = S);
\* every hmRemove, and every hmPut of a key hsFetch does not find in the
\* previous space, comes to an end, and when it returns it has advanced the
\* cursor by min(batchSize, toMigrate) slots, so that the migration is over
\* after at most ceil(S / batchSize) such calls; an hmPut of a key found in
\* the previous space leaves the cursor in place.
C28_BoundedProgress ==
    (status = "ok" /\ map.toMigrate > 0 /\ map.batchSize # HMAP_MIGRATE_ALL) =>
        /\ map.migratePos + map.toMigrate = map.spaces[Other(map)].size
        /\ map.migratePos % map.batchSize = 0
        /\ \A k \in DOMAIN live : \A n \in NullReads :
              LET r == hmRemove(map, k, n)
              IN  r.status # "hang" /\ (r.status = "ok" => Advanced(map, r.map))
        /\ \A k \in DOMAIN live : \A v \in {NewValue(k), OtherValue(k)} :
              LET r == hmPut(map, k, v)
              IN  /\ r.status # "hang"
                  /\ r.status = "ok" =>
                     IF hsFetch(map.spaces[Other(map)], k,
                                map.spaces[Other(map)].maxOffset) # NoEntry
                     THEN /\ r.map.toMigrate = map.toMigrate
                          /\ r.map.migratePos = map.migratePos
                     ELSE Advanced(map, r.map)

\* the in-use bucket at slot i of space sp lies offset slots after its key's
\* home slot, wrapping around
AtHomePlusOffset(sp, i) ==
    (hindex32(sp.buckets[i].key, sp.shift, sp.mask) + sp.buckets[i].offset) % sp.size = i

\* C29: slot/offset consistency.  After every completed call, every in-use
\* bucket at slot i of either space satisfies (hindex32(key, shift, mask) +
\* offset) mod size = i, with the shift and mask of the space holding it.
C29_SlotOffset ==
    status = "ok" =>
        \A s \in 0 .. 1 :
            map.spaces[s].buckets # NULL =>
                \A i \in DOMAIN map.spaces[s].buckets :
                    map.spaces[s].buckets[i].inuse => AtHomePlusOffset(map.spaces[s], i)

\* space s of map m holds an in-use bucket d slots or more after its home slot
Displaced(m, s, d) ==
    /\ m.spaces[s].buckets # NULL
    /\ \E i \in DOMAIN m.spaces[s].buckets :
          m.spaces[s].buckets[i].inuse /\ m.spaces[s].buckets[i].offset >= d

\* an hmRemove has removed a key during a migration and a space still holds a
\* bucket two slots after its home slot
C29_DisplacedAfterRemove ==
    /\ status = "ok" /\ last.op = "remove" /\ last.ret
    /\ map.toMigrate > 0
    /\ Displaced(map, 0, 2) \/ Displaced(map, 1, 2)

\* the in-use bucket at slot i of space sp is in Robin Hood order with its
\* left neighbour: at most one slot further from home than an in-use
\* neighbour, and at home when the neighbour slot is empty
RobinHoodAt(sp, i) ==
    IF sp.buckets[(i + sp.size - 1) % sp.size].inuse
    THEN sp.buckets[i].offset <= sp.buckets[(i + sp.size - 1) % sp.size].offset + 1
    ELSE sp.buckets[i].offset = 0

\* C30: Robin Hood ordering of the current space.  After every completed
\* call, for adjacent slots i and (i + 1) & mask of the current space that are
\* both in use, offset[(i + 1) & mask] <= offset[i] + 1, and an in-use bucket
\* whose left neighbour slot is empty has offset 0.
C30_RobinHoodOrder ==
    (status = "ok" /\ map.spaces[map.current].buckets # NULL) =>
        \A i \in DOMAIN map.spaces[map.current].buckets :
            map.spaces[map.current].buckets[i].inuse =>
                RobinHoodAt(map.spaces[map.current], i)

\* an hmRemove has removed a key from the current space, no migration being
\* in flight, and the current space still holds a bucket away from its home
\* slot
C30_ShiftedRun ==
    /\ status = "ok" /\ last.op = "remove" /\ last.ret
    /\ map.toMigrate = 0
    /\ Displaced(map, map.current, 1)

\* hsInsert has returned r for key k on space sp: the key exists, the entry
\* returned is the in-use bucket holding it, and the space is unchanged
FoundUnchanged(sp, k, r) ==
    /\ r.status = "ok" /\ r.exists
    /\ sp.buckets[r.entry].inuse /\ sp.buckets[r.entry].key = k
    /\ r.space = sp

\* C31: hsInsert of a key held by an in-use bucket of the current space, with
\* any value, returns exists = true with that bucket and changes nothing in
\* the space: no bucket is swapped or moved, no value is stored, maxOffset is
\* unchanged.
C31_InsertExisting ==
    status = "ok" =>
        \A k \in KeysIn(map, map.current) : \A v \in {NewValue(k), OtherValue(k)} :
            FoundUnchanged(map.spaces[map.current], k,
                           hsInsert(map.spaces[map.current], k, v))

\* an hmPut has returned exists = true from hsInsert, no migration being in
\* flight, for a key two slots or more after its home slot
C31_ExistingBehindRun ==
    /\ status = "ok" /\ last.op = "put" /\ last.ret /\ map.toMigrate = 0
    /\ map.spaces[map.current].buckets # NULL
    /\ \E i \in DOMAIN map.spaces[map.current].buckets :
          /\ map.spaces[map.current].buckets[i].inuse
          /\ map.spaces[map.current].buckets[i].key = last.key
          /\ map.spaces[map.current].buckets[i].offset >= 2

\* the distances d <= bound from the home slot of key k at which space sp
\* holds k in an in-use bucket
Within(sp, k, bound) ==
    {d \in 0 .. bound :
        /\ sp.buckets[(hindex32(k, sp.shift, sp.mask) + d) % sp.size].inuse
        /\ sp.buckets[(hindex32(k, sp.shift, sp.mask) + d) % sp.size].key = k}

\* the least element of a non-empty set of naturals
Least(S) == CHOOSE d \in S : \A e \in S : d <= e

\* hsFetch has returned slot e for key k and bound on space sp, in which the
\* key lies at the distances w from its home slot
FetchedNearest(sp, k, e, w) ==
    IF w = {} THEN e = NoEntry
    ELSE /\ e # NoEntry
         /\ sp.buckets[e].inuse /\ sp.buckets[e].key = k
         /\ e = (hindex32(k, sp.shift, sp.mask) + Least(w)) % sp.size

\* C32: hsFetch(space, key, bound) returns a bucket exactly when an in-use
\* bucket holding the key lies within bound + 1 slots, wrapping, from the
\* key's home slot, whatever empty or lazily cleared slots lie in between,
\* and then returns the first such bucket; it never returns a bucket that is
\* not in use, even one that still carries the key; it returns null for a
\* space with no bucket array.
C32_FetchWithinBound ==
    status = "ok" =>
        \A s \in 0 .. 1 : \A k \in DOMAIN live :
            \A bound \in 0 .. map.spaces[s].offsetLimit + 1 :
                IF map.spaces[s].buckets = NULL
                THEN hsFetch(map.spaces[s], k, bound) = NoEntry
                ELSE FetchedNearest(map.spaces[s], k, hsFetch(map.spaces[s], k, bound),
                                    Within(map.spaces[s], k, bound))

\* an hmPut has fetched from a previous space in which a key still in use
\* lies behind its lazily cleared home slot
C32_KeyBehindClearedSlot ==
    /\ status = "ok" /\ last.op = "put" /\ map.toMigrate > 0
    /\ \E k \in KeysIn(map, Other(map)) :
          LET b == map.spaces[Other(map)].buckets[
                       hindex32(k, map.spaces[Other(map)].shift, map.spaces[Other(map)].mask)]
          IN  ~b.inuse /\ b.key # k /\ b.offset = 0 /\ b.value # 0

\* the keys held by in-use buckets of the space sp
KeysOf(sp) ==
    IF sp.buckets = NULL THEN {}
    ELSE {sp.buckets[i].key : i \in {j \in DOMAIN sp.buckets : sp.buckets[j].inuse}}

\* hsRemove has returned r for key k on space sp, which held the keys ks
RemovedExactly(sp, k, r, ks) ==
    /\ r.status = "ok"
    /\ r.found <=> k \in ks
    /\ r.found => /\ KeysOf(r.space) = ks \ {k}
                  /\ \A j \in ks \ {k} : hsFetch(r.space, j, r.space.maxOffset) # NoEntry
    /\ ~r.found => r.space = sp

\* C33: hsRemove on the current space returns true, and removes the bucket,
\* if and only if an in-use bucket of that space holds the key, also when the
\* bucket's offset equals or exceeds offsetLimit; after it has returned true
\* every other key of the space is still found by hsFetch with bound
\* maxOffset.
C33_RemoveIffHeld ==
    (status = "ok" /\ map.spaces[map.current].buckets # NULL) =>
        \A k \in DOMAIN live : \A n \in NullReads :
            RemovedExactly(map.spaces[map.current], k,
                           hsRemove(map.spaces[map.current], k, n),
                           KeysOf(map.spaces[map.current]))

\* the least integer that is at least a / b, for b > 0
CeilDiv(a, b) == (a + b - 1) \div b

\* the batch size stored in map m after hmInitCustom with the batchSize
\* argument b: at least HMAP_MIN_BATCHSIZE and at least the rounded-up ratio
\* of the stored load factors plus one, or 0 if b is 0
BatchClamped(m, b) ==
    IF b = HMAP_MIGRATE_ALL THEN m.batchSize = HMAP_MIGRATE_ALL
    ELSE /\ m.batchSize >= HMAP_MIN_BATCHSIZE
         /\ m.batchSize >= CeilDiv(m.growLoad, m.shrinkLoad) + 1

\* C34: after hmInitCustom with a non-zero batchSize argument the stored
\* batch size is at least 4 and at least ceil(growLoad / shrinkLoad) + 1 of
\* the stored (sanitised) load factors; a batchSize argument of 0 stays 0
C34_BatchClamp ==
    (status = "ok" /\ drv.phase = "args") => BatchClamped(map, drv.args.batchSize)

\* the call that returned r made no read through a null buckets pointer
NoNullAccess(r) == r.status # "segv"

\* the previous space still has its bucket array while hsMigrate has slots
\* of it left to read
PreviousAllocated(m) == m.toMigrate > 0 => m.spaces[Other(m)].buckets # NULL

\* C35: hmPut, hmGet and hmRemove never read or write a bucket of a space
\* whose buckets pointer is null: hsRemove is never run on a current space
\* that has no bucket array yet (its unguarded read is seen when it traps),
\* and hsMigrate never reads a freed previous space.
C35_NoNullBucketAccess ==
    status = "ok" =>
        /\ PreviousAllocated(map)
        /\ \A k \in DOMAIN live :
              /\ NoNullAccess(hmRemove(map, k, "trap"))
              /\ NoNullAccess(hmPut(map, k, NewValue(k)))

\* when no migration is in flight in map m, the non-current space holds no
\* bucket array
OtherUnallocated(m) == m.toMigrate = 0 => m.spaces[Other(m)].buckets = NULL

\* the map as hmPut or hmRemove hands it to its resize test, as far as the
\* migration state and the previous space go: map m after the migration step
\* the call starts with, which returned g
AtResizeTest(m, g) == IF m.toMigrate # 0 /\ g.status = "ok" THEN g.map ELSE m

\* if the call that took map m to map m1 has triggered a resize, no migration
\* was in flight in the map t it tested, and the space hsInit was applied to
\* (the non-current space of t) held no bucket array
InitOnUnallocated(m, t, m1) ==
    Resized(m, m1) => t.toMigrate = 0 /\ t.spaces[Other(m)].buckets = NULL

\* the allocation discipline over the next call on map m, g being what the
\* migration step of that call returns
AllocationDiscipline(m, g, ks) ==
    /\ OtherUnallocated(m)
    /\ OtherUnallocated(AtResizeTest(m, g))
    /\ \A k \in ks : \A n \in NullReads :
          /\ InitOnUnallocated(m, AtResizeTest(m, g), hmPut(m, k, NewValue(k)).map)
          /\ InitOnUnallocated(m, AtResizeTest(m, g), hmRemove(m, k, n).map)

\* C36: whenever toMigrate = 0 the non-current space holds no bucket array,
\* and hsInit (in triggerResize) is only applied to a space whose buckets
\* pointer is null: the flip leaks no bucket array and none is freed twice.
C36_AllocationDiscipline ==
    status = "ok" => AllocationDiscipline(map, hsMigrate(map, map.batchSize), DOMAIN live)

\* a second resize is in flight: hsInit was applied to space 0 again, whose
\* first bucket array the first migration had freed
C36_SpaceReused ==
    /\ status = "ok" /\ last.op \in {"put", "remove"}
    /\ map.toMigrate > 0 /\ map.current = 0
    /\ map.spaces[1].buckets # NULL /\ map.spaces[0].buckets = NULL

\* the migration cursor of map m: while slots are left to migrate, the slots
\* left and the cursor add up to the previous space's size, and no slot of
\* the previous space behind the cursor is in use
CursorInvariant(m) ==
    m.toMigrate > 0 =>
        /\ m.spaces[Other(m)].buckets # NULL
        /\ m.toMigrate + m.migratePos = m.spaces[Other(m)].size
        /\ \A i \in 0 .. m.migratePos - 1 : ~m.spaces[Other(m)].buckets[i].inuse

\* the call on map m that returned r has kept the cursor invariant
KeptCursor(m, r) == r.status = "ok" => CursorInvariant(r.map)

\* the migration step on map m that returned g has lost no key: the keys the
\* previous space held are in the current space or still in the previous one
NoKeyLost(m, g, ks) ==
    g.status = "ok" => ks \subseteq KeysIn(g.map, m.current) \cup KeysIn(g.map, Other(m))

\* C37: while toMigrate > 0, toMigrate + migratePos is the previous space's
\* size and no slot of the previous space with index < migratePos is in use;
\* no call (in particular no hmRemove, with its backward shift on the
\* previous space) moves a live entry behind the cursor, and the migration
\* step loses no key, also when it frees the previous array.
C37_MigrationCursor ==
    status = "ok" =>
        /\ CursorInvariant(map)
        /\ \A k \in DOMAIN live :
              /\ \A n \in NullReads : KeptCursor(map, hmRemove(map, k, n))
              /\ KeptCursor(map, hmPut(map, k, NewValue(k)))
        /\ map.toMigrate > 0 =>
              NoKeyLost(map, hsMigrate(map, map.batchSize), KeysIn(map, Other(map)))

\* hmRemove has just removed a key from the previous space (the current
\* space has no bucket array yet) with the cursor advanced, and its backward
\* shift has closed the gap: the previous space holds all the other keys, each
\* at most one slot from home and right after an in-use slot if displaced
C37_ShiftedAheadOfCursor ==
    /\ status = "ok" /\ last.op = "remove" /\ last.ret
    /\ map.toMigrate > 0 /\ map.migratePos > 0
    /\ map.spaces[map.current].buckets = NULL
    /\ KeysIn(map, Other(map)) = Keys \ {last.key}
    /\ LET b == map.spaces[Other(map)].buckets
           n == map.spaces[Other(map)].size
       IN  \A i \in DOMAIN b :
               b[i].inuse => /\ b[i].offset <= 1
                             /\ b[i].offset > 0 => b[(i + n - 1) % n].inuse
====
